---- MODULE Spec2Model ----
(***************************************************************************)
(* Reed-Muench titer calculator (jbloomlab/reedmuenchcalculator).          *)
(*                                                                         *)
(* Titer (reedmuench_utils.py 9-75, duplicated verbatim in                 *)
(* reedmuenchcalculator.py 18-84) is a pure function; it is modelled as    *)
(* operators that follow the code statement by statement.  Floating point  *)
(* percentages are kept as exact fractions <<numerator, denominator>>;     *)
(* the final real power dilution**(startdilution + index) / volume is kept *)
(* symbolically as its base, its exponent (a fraction) and the volume.     *)
(***************************************************************************)
EXTENDS Integers, Sequences, FiniteSets, TLC

(* a direct call of Titer: its arguments, its position, its dictionaries  *)
(* as the call left them (<<>> while unassigned) and what it gave         *)
VARIABLES infectedwells, volume, dilution, pc, counts, infected, uninfected,
          percentinfected, result

(* a run of the script: the input file, the output file before and during  *)
(* the run, the position in main, the locals of main and the exception     *)
VARIABLES infile, oldfile, outfile, pcM, samplenames, sampledata, mvolume,
          mdilution, pending, titers, overwrite, nwritten, error

tvars == <<infectedwells, volume, dilution, pc, counts, infected, uninfected,
           percentinfected, result>>
mvars == <<infile, oldfile, outfile, pcM, samplenames, sampledata, mvolume,
           mdilution, pending, titers, overwrite, nwritten, error>>
vars == <<tvars, mvars>>

(* ---------------------------------------------------------------- bounds *)
MaxReplicates == 3   \* longest list of replicates handed to Titer
MaxSkip == 2         \* non-monotone replicates: A..k-1 then row k+1, k <= MaxSkip
MaxRepeat == 3       \* a row label repeated up to MaxRepeat times in a replicate
MaxSamples == 2      \* sample blocks in an input file

(* ------------------------------------------------------------- constants *)
rows == <<"A", "B", "C", "D", "E", "F", "G", "H">>
NRows == Len(rows)
RowSet == {rows[i] : i \in 1..NRows}

(* ------------------------------------------------------------- fractions *)
Abs(x) == IF x < 0 THEN -x ELSE x

RECURSIVE GCD(_, _)
GCD(a, b) == IF b = 0 THEN a ELSE GCD(b, a % b)

(* the fraction n/d (d # 0) in lowest terms with a positive denominator *)
Frac(n, d) ==
    LET g == GCD(Abs(n), Abs(d))
        s == IF d < 0 THEN -1 ELSE 1
    IN  <<(s * n) \div g, (s * d) \div g>>

FracLess(p, q) == p[1] * q[2] < q[1] * p[2]     \* both in lowest terms, den > 0
FracLeq(p, q) == p[1] * q[2] <= q[1] * p[2]
FracSub(p, q) == Frac(p[1] * q[2] - q[1] * p[2], p[2] * q[2])
FracAdd(p, q) == Frac(p[1] * q[2] + q[1] * p[2], p[2] * q[2])
Fifty == <<50, 1>>
Zero == <<0, 1>>
Hundred == <<100, 1>>

(* ------------------------------------------------------------ Titer body *)
(* The operators below take the local variables of Titer they read as      *)
(* parameters: iw = infectedwells, n = nreplicates, c = counts,            *)
(* inf = infected, unf = uninfected, p = percentinfected.                  *)

(* slip: the replicate check written as nreplicates < 1 *)
TooFewReplicates_Mut(iw) == Len(iw) < 1

(* nreplicates = len(infectedwells); if nreplicates < 2: raise *)
TooFewReplicates(iw) == Len(iw) < 2

(* slip: only the first well of each replicate is validated *)
InvalidWell_Mut(iw) == \E i \in 1..Len(iw) : Len(iw[i]) > 0 /\ iw[i][1] \notin RowSet

(* the well loop raises on the first well that is not in rows *)
InvalidWell(iw) == \E i \in 1..Len(iw) : \E j \in 1..Len(iw[i]) : iw[i][j] \notin RowSet

(* counts[well] += 1 over every well of every replicate; the dictionaries *)
(* of Titer are sequences indexed by the one-based position of the row    *)
RECURSIVE CountsFrom(_, _, _)
CountsFrom(iw, wells, r) ==
    IF r > NRows THEN <<>>
    ELSE <<Cardinality({ij \in wells : iw[ij[1]][ij[2]] = rows[r]})>>
            \o CountsFrom(iw, wells, r + 1)

(* slip: counts[well] = 1 in place of counts[well] += 1 *)
Counts_Mut(iw) ==
    [r \in 1..NRows |->
        IF \E i \in 1..Len(iw) : \E j \in 1..Len(iw[i]) : iw[i][j] = rows[r] THEN 1 ELSE 0]

(* counts, as the loop over the wells leaves it *)
Counts(iw) ==
    CountsFrom(iw, UNION {{<<i, j>> : j \in 1..Len(iw[i])} : i \in 1..Len(iw)}, 1)

(* n = 0; for row in rows: uninfected[row] = n + nreplicates - counts[row]; *)
(* n = uninfected[row]                                                     *)
RECURSIVE UninfectedFrom(_, _, _, _)
UninfectedFrom(nreplicates, c, r, n) ==
    IF r > NRows THEN <<>>
    ELSE <<n + nreplicates - c[r]>>
            \o UninfectedFrom(nreplicates, c, r + 1, n + nreplicates - c[r])

(* slip: uninfected[row] = n - counts[row], nreplicates left out *)
Uninfected_Mut(nreplicates, c) == UninfectedFrom(0, c, 1, 0)

(* uninfected, as the loop over rows leaves it *)
Uninfected(nreplicates, c) == UninfectedFrom(nreplicates, c, 1, 0)

(* n = 0; for row in reverserows: infected[row] = n + counts[row]; *)
(* n = infected[row]                                              *)
RECURSIVE InfectedFrom(_, _, _)
InfectedFrom(c, r, n) ==
    IF r < 1 THEN <<>>
    ELSE InfectedFrom(c, r - 1, n + c[r]) \o <<n + c[r]>>

Infected(c) == InfectedFrom(c, NRows, 0)

(* infected[row] + uninfected[row], the divisor of percentinfected[row] *)
Denominator(inf, unf, r) == inf[r] + unf[r]

(* the percentinfected loop raises ZeroDivisionError on a zero divisor *)
ZeroDivisor(inf, unf) == \E r \in 1..NRows : Denominator(inf, unf, r) = 0

(* percentinfected[row] = 100.0 * infected[row] / (infected[row] + uninfected[row]); *)
(* a row whose divisor is zero is never assigned and is kept as 0                   *)
RECURSIVE PercentInfectedFrom(_, _, _)
PercentInfectedFrom(inf, unf, r) ==
    IF r > NRows THEN <<>>
    ELSE <<IF Denominator(inf, unf, r) = 0 THEN Zero
           ELSE Frac(100 * inf[r], Denominator(inf, unf, r))>>
            \o PercentInfectedFrom(inf, unf, r + 1)

(* slip: the percentage of uninfected wells in place of infected wells *)
PercentInfected_Mut(inf, unf) == PercentInfectedFrom(unf, inf, 1)

(* percentinfected, as the loop over rows leaves it *)
PercentInfected(inf, unf) == PercentInfectedFrom(inf, unf, 1)

(* slip: no else clause on the scan, the last row taken when none is below 50 *)
FirstBelow50_NoElse(p) ==
    IF \E r \in 1..NRows : FracLess(p[r], Fifty)
    THEN CHOOSE r \in 1..NRows :
            /\ FracLess(p[r], Fifty)
            /\ \A q \in 1..(r - 1) : ~FracLess(p[q], Fifty)
    ELSE NRows + 1

(* slip: the scan tests percentinfected <= 50 *)
FirstBelow50_Leq(p) ==
    IF \E r \in 1..NRows : FracLeq(p[r], Fifty)
    THEN CHOOSE r \in 1..NRows :
            /\ FracLeq(p[r], Fifty)
            /\ \A q \in 1..(r - 1) : ~FracLeq(p[q], Fifty)
    ELSE 0

(* for irow in range(len(rows)): if percentinfected[rows[irow]] < 50: ...   *)
(* one-based position of the first row below 50, 0 when the loop falls     *)
(* through to its else clause                                              *)
FirstBelow50(p) ==
    IF \E r \in 1..NRows : FracLess(p[r], Fifty)
    THEN CHOOSE r \in 1..NRows :
            /\ FracLess(p[r], Fifty)
            /\ \A q \in 1..(r - 1) : ~FracLess(p[q], Fifty)
    ELSE 0

(* slip: rowabove50 = rows[irow] *)
RowAbove50_Mut(p) == FirstBelow50(p)

(* rowabove50 = rows[irow - 1], as a one-based position *)
RowAbove50(p) == FirstBelow50(p) - 1

(* percentrowabove50 = percentinfected[rowabove50] *)
PercentRowAbove50(p) == p[RowAbove50(p)]

(* if rowabove50 != rows[-1]: percentinfected[next row] else 0 *)
PercentRowBelow50(p) ==
    IF RowAbove50(p) # NRows THEN p[RowAbove50(p) + 1] ELSE Zero

(* percentrowabove50 - percentrowbelow50, the divisor of index *)
IndexDivisor(p) == FracSub(PercentRowAbove50(p), PercentRowBelow50(p))

(* index = (percentrowabove50 - 50.0) / (percentrowabove50 - percentrowbelow50) *)
Index(p) ==
    LET num == FracSub(PercentRowAbove50(p), Fifty)
        den == IndexDivisor(p)
    IN  Frac(num[1] * den[2], num[2] * den[1])

(* startdilution = rows.index(rowabove50), zero-based as in the code *)
StartDilution(p) == RowAbove50(p) - 1

(* startdilution + index *)
Exponent(p) == FracAdd(<<StartDilution(p), 1>>, Index(p))

NoTiter == [base |-> 0, exponent |-> Zero, volume |-> Zero]

ErrorKinds == {"InsufficientReplicates", "InvalidRowLabel", "DuplicateRowInReplicate",
               "FirstDilutionBelow50", "NoDilutionBelow50"}

Titer(iw, vol, dil) ==
    LET c == Counts(iw)
        inf == Infected(c)
        unf == Uninfected(Len(iw), c)
        p == PercentInfected(inf, unf)
        first == FirstBelow50(p)
    IN  IF TooFewReplicates(iw) THEN [kind |-> "InsufficientReplicates", titer |-> NoTiter]
        ELSE IF InvalidWell(iw) THEN [kind |-> "InvalidRowLabel", titer |-> NoTiter]
        ELSE IF ZeroDivisor(inf, unf) THEN [kind |-> "ZeroDivisionError", titer |-> NoTiter]
        ELSE IF first = 1 THEN [kind |-> "FirstDilutionBelow50", titer |-> NoTiter]
        ELSE IF first = 0 THEN [kind |-> "NoDilutionBelow50", titer |-> NoTiter]
        ELSE IF IndexDivisor(p)[1] = 0 THEN [kind |-> "ZeroDivisionError", titer |-> NoTiter]
        ELSE IF vol[1] = 0 THEN [kind |-> "ZeroDivisionError", titer |-> NoTiter]
        ELSE [kind |-> "Titer",
              titer |-> [base |-> dil, exponent |-> Exponent(p), volume |-> vol]]

(* ---------------------------------------------------------------- inputs *)
Prefix(k) == [i \in 1..k |-> rows[i]]
Repeat(r, m) == [i \in 1..m |-> r]

MonotoneReplicates == {Prefix(k) : k \in 0..NRows}
SkipReplicates == {Prefix(k - 1) \o <<rows[k + 1]>> : k \in 1..MaxSkip}
InvalidReplicates == {<<"Z">>, <<"A", "Z", "B">>, Prefix(NRows) \o <<"Z">>}
RepeatReplicates == {Repeat("A", m) : m \in 2..MaxRepeat} \cup {<<"A", "B", "B">>}

Replicates == MonotoneReplicates \cup SkipReplicates \cup InvalidReplicates
                 \cup RepeatReplicates

Assays == UNION {[1..n -> Replicates] : n \in 0..MaxReplicates}

(* (volume, dilution) pairs; volume is a fraction, 1/20 = 0.05 *)
Parameters == {<<<<1, 20>>, 10>>, <<<<1, 1>>, 2>>}

(* --------------------------------------------------- direct call of Titer *)
NoResult == [kind |-> "none", titer |-> NoTiter]
NoFile == [exists |-> FALSE, lines |-> <<>>]

TiterIdle ==
    /\ infectedwells = <<>> /\ volume = Zero /\ dilution = 0
    /\ pc = "idle" /\ result = NoResult
    /\ counts = <<>> /\ infected = <<>> /\ uninfected = <<>> /\ percentinfected = <<>>

MainIdle ==
    /\ infile = <<>> /\ oldfile = NoFile /\ outfile = NoFile /\ pcM = "idle"
    /\ samplenames = <<>> /\ sampledata = <<>> /\ mvolume = Zero /\ mdilution = 0
    /\ pending = {} /\ titers = <<>> /\ overwrite = "unasked" /\ nwritten = 0
    /\ error = "none"

Init ==
    /\ infectedwells \in Assays
    /\ \E p \in Parameters : volume = p[1] /\ dilution = p[2]
    /\ pc = "call"
    /\ counts = <<>> /\ infected = <<>> /\ uninfected = <<>> /\ percentinfected = <<>>
    /\ result = NoResult
    /\ MainIdle

CallTiter ==
    /\ pc = "call"
    /\ IF TooFewReplicates(infectedwells) \/ InvalidWell(infectedwells)
       THEN UNCHANGED <<counts, infected, uninfected, percentinfected>>
       ELSE /\ counts' = Counts(infectedwells)
            /\ infected' = Infected(counts')
            /\ uninfected' = Uninfected(Len(infectedwells), counts')
            /\ percentinfected' = PercentInfected(infected', uninfected')
    /\ result' = Titer(infectedwells, volume, dilution)
    /\ pc' = "done"
    /\ UNCHANGED <<infectedwells, volume, dilution>>
    /\ UNCHANGED mvars

Next == CallTiter

Spec == Init /\ [][Next]_vars

(* ------------------------------------------------------------ input file *)
(* A line of the input file after readlines(): what the regular            *)
(* expressions of ParseInput see in it.                                    *)
Line(kind, num, name, wells) == [kind |-> kind, num |-> num, name |-> name, wells |-> wells]
VolumeLine(v) == Line("VOLUME", v, "", <<>>)
DilutionLine(d) == Line("DILUTION", <<d, 1>>, "", <<>>)
NReplicatesLine(n) == Line("NREPLICATES", <<n, 1>>, "", <<>>)
SampleLine(name) == Line("SAMPLE", Zero, name, <<>>)
DataLine(wells) == Line("data", Zero, "", wells)
CommentLine == Line("comment", Zero, "", <<>>)

(* [line for line in ... if line[0] != '#' and not line.isspace()] *)
RECURSIVE DropComments(_)
DropComments(lines) ==
    IF lines = <<>> THEN <<>>
    ELSE IF Head(lines).kind = "comment" THEN DropComments(Tail(lines))
    ELSE <<Head(lines)>> \o DropComments(Tail(lines))

(* x.strip() for x in line.split(','): a line that is not a list of wells *)
(* splits into one token that is no row label                             *)
Tokens(line) == IF line.kind = "data" THEN line.wells ELSE <<line.kind>>

(* the checks of the inner loop on one replicate line: "" when it passes *)
RowsError(rowlist) ==
    IF \E j \in 1..Len(rowlist) : rowlist[j] \notin RowSet
          /\ \A q \in 1..(j - 1) : Cardinality({i \in 1..Len(rowlist) : rowlist[i] = rowlist[q]}) = 1
    THEN "IOError: Invalid row specification"
    ELSE IF \E j \in 1..Len(rowlist) :
                Cardinality({i \in 1..Len(rowlist) : rowlist[i] = rowlist[j]}) # 1
    THEN "IOError: Row identifier appears more than once"
    ELSE ""

(* for line in samplelines: 'na' gives [], anything else its row list *)
RECURSIVE ParseReplicates(_)
ParseReplicates(samplelines) ==
    IF samplelines = <<>> THEN [err |-> "", data |-> <<>>]
    ELSE LET line == Head(samplelines)
             rest == ParseReplicates(Tail(samplelines))
         IN  IF Tokens(line) = <<"na">>
             THEN [err |-> rest.err, data |-> <<<<>>>> \o rest.data]
             ELSE IF RowsError(Tokens(line)) # ""
             THEN [err |-> RowsError(Tokens(line)), data |-> <<>>]
             ELSE [err |-> rest.err, data |-> <<Tokens(line)>> \o rest.data]

ParseFailure(msg) ==
    [err |-> msg, samplenames |-> <<>>, sampledata |-> <<>>, volume |-> Zero, dilution |-> 0]

(* for isample in range(nsamples): ... *)
RECURSIVE ParseSamples(_, _, _, _, _)
ParseSamples(lines, nrep, isample, names, data) ==
    LET linespersample == nrep + 1
        nameline == lines[isample * linespersample + 1]
        samplelines == SubSeq(lines, isample * linespersample + 2,
                              (isample + 1) * linespersample)
        parsed == ParseReplicates(samplelines)
    IN  IF isample * linespersample >= Len(lines)
        THEN [err |-> "", samplenames |-> names, sampledata |-> data]
        ELSE IF nameline.kind # "SAMPLE"
        THEN [err |-> "IOError: Failed to match sample name", samplenames |-> <<>>, sampledata |-> <<>>]
        ELSE IF nameline.name \in DOMAIN data
        THEN [err |-> "IOError: Duplicate sample name", samplenames |-> <<>>, sampledata |-> <<>>]
        ELSE IF parsed.err # ""
        THEN [err |-> parsed.err, samplenames |-> <<>>, sampledata |-> <<>>]
        ELSE ParseSamples(lines, nrep, isample + 1, Append(names, nameline.name),
                          (nameline.name :> parsed.data) @@ data)

ParseInput(file) ==
    LET lines == DropComments(file)
        rest == SubSeq(lines, 4, Len(lines))
        samples == ParseSamples(rest, lines[3].num[1], 0, <<>>, <<>>)
    IN  IF Len(lines) < 1 THEN ParseFailure("IndexError")
        ELSE IF lines[1].kind # "VOLUME"
        THEN ParseFailure("IOError: Failed to parse VOLUME")
        ELSE IF Len(lines) < 2 THEN ParseFailure("IndexError")
        ELSE IF lines[2].kind # "DILUTION"
        THEN ParseFailure("IOError: Failed to parse DILUTION")
        ELSE IF lines[2].num[1] <= 1
        THEN ParseFailure("IOError: The dilution factor must be > 1")
        ELSE IF Len(lines) < 3 THEN ParseFailure("IndexError")
        ELSE IF lines[3].kind # "NREPLICATES"
        THEN ParseFailure("IOError: Failed to parse NREPLICATES")
        ELSE IF lines[3].num[1] < 2
        THEN ParseFailure("IOError: There must be at least two replicates")
        ELSE IF Len(rest) % (lines[3].num[1] + 1) # 0
        THEN ParseFailure("IOError: The sample data is not specified correctly")
        ELSE IF samples.err # "" THEN ParseFailure(samples.err)
        ELSE [err |-> "", samplenames |-> samples.samplenames,
              sampledata |-> samples.sampledata,
              volume |-> lines[1].num, dilution |-> lines[2].num[1]]

(* ------------------------------------------------------------ input files *)
GoodHeader == <<VolumeLine(<<1, 20>>), DilutionLine(10), NReplicatesLine(2)>>

BadHeaders ==
    { <<VolumeLine(<<1, 20>>), DilutionLine(1), NReplicatesLine(2)>>,
      <<VolumeLine(<<1, 20>>), DilutionLine(10), NReplicatesLine(1)>>,
      <<DilutionLine(10), VolumeLine(<<1, 20>>), NReplicatesLine(2)>>,
      <<VolumeLine(<<1, 20>>), DilutionLine(10)>>,
      <<VolumeLine(Zero), DilutionLine(10), NReplicatesLine(2)>> }

NameLines == {SampleLine("s1"), SampleLine("s2"), DataLine(<<"A">>)}

ReplicateLines ==
    { <<DataLine(Prefix(2)), DataLine(Prefix(2))>>,
      <<DataLine(Prefix(2)), DataLine(Prefix(1))>>,
      <<DataLine(<<"na">>), DataLine(<<"na">>)>>,
      <<DataLine(Prefix(NRows)), DataLine(Prefix(NRows))>>,
      <<DataLine(Prefix(2)), DataLine(<<"A", "Z">>)>>,
      <<DataLine(<<"A", "A">>), DataLine(Prefix(2))>> }

Blocks == {<<n>> \o r : n \in NameLines, r \in ReplicateLines}

RECURSIVE Flatten(_)
Flatten(blocks) == IF blocks = <<>> THEN <<>> ELSE Head(blocks) \o Flatten(Tail(blocks))

Bodies == {Flatten(bs) : bs \in UNION {[1..n -> Blocks] : n \in 0..MaxSamples}}

SampleBody == <<SampleLine("s1"), DataLine(Prefix(2)), DataLine(Prefix(1))>>

InputFiles ==
    {GoodHeader \o b : b \in Bodies}
        \cup {GoodHeader \o b \o <<DataLine(<<"na">>)>> : b \in Bodies}
        \cup {h \o SampleBody : h \in BadHeaders}
        \cup {<<CommentLine>> \o GoodHeader \o <<CommentLine>> \o SampleBody \o <<CommentLine>>}

OldFile == [exists |-> TRUE, lines |-> <<[text |-> "old", sample |-> "", titer |-> NoTiter]>>]

(* ------------------------------------------------------------------ main *)
HeaderLine == [text |-> "Here are the computed titers in TCID50 per ul.", sample |-> "", titer |-> NoTiter]

(* "%s:\t%.3f\n" % (sample, titers[sample]); the titer stays symbolic *)
TiterLine(sample, t) == [text |-> "%s:\t%.3f", sample |-> sample, titer |-> t]

InitMain ==
    /\ infile \in InputFiles
    /\ oldfile \in {NoFile, OldFile}
    /\ outfile = oldfile
    /\ pcM = "parse"
    /\ samplenames = <<>> /\ sampledata = <<>> /\ mvolume = Zero /\ mdilution = 0
    /\ pending = {} /\ titers = <<>> /\ overwrite = "unasked" /\ nwritten = 0
    /\ error = "none"
    /\ TiterIdle

(* (samplenames, sampledata, volume, dilution) = ParseInput(infile) *)
Parse ==
    /\ pcM = "parse"
    /\ LET parsed == ParseInput(infile)
       IN  IF parsed.err # ""
           THEN /\ error' = parsed.err
                /\ pcM' = "except"
                /\ UNCHANGED <<samplenames, sampledata, mvolume, mdilution, pending>>
           ELSE /\ samplenames' = parsed.samplenames
                /\ sampledata' = parsed.sampledata
                /\ mvolume' = parsed.volume
                /\ mdilution' = parsed.dilution
                /\ pending' = DOMAIN parsed.sampledata
                /\ pcM' = "titers"
                /\ UNCHANGED error
    /\ UNCHANGED <<infile, oldfile, outfile, titers, overwrite, nwritten>>
    /\ UNCHANGED tvars

(* slip: the outcome of Titer is stored whether or not it failed *)
ComputeTiter_Mut(sample) ==
    /\ pcM = "titers"
    /\ sample \in pending
    /\ titers' = (sample :> Titer(sampledata[sample], mvolume, mdilution).titer) @@ titers
    /\ pending' = pending \ {sample}
    /\ UNCHANGED <<error, pcM>>
    /\ UNCHANGED <<infile, oldfile, outfile, samplenames, sampledata, mvolume,
                   mdilution, overwrite, nwritten>>
    /\ UNCHANGED tvars

(* one turn of: for (sample, data) in sampledata.iteritems():              *)
(*                  titers[sample] = Titer(data, volume, dilution)         *)
(* the dictionary yields its items in an order the script does not choose  *)
ComputeTiter(sample) ==
    /\ pcM = "titers"
    /\ sample \in pending
    /\ LET res == Titer(sampledata[sample], mvolume, mdilution)
       IN  IF res.kind # "Titer"
           THEN /\ error' = res.kind
                /\ pcM' = "except"
                /\ UNCHANGED <<titers, pending>>
           ELSE /\ titers' = (sample :> res.titer) @@ titers
                /\ pending' = pending \ {sample}
                /\ UNCHANGED <<error, pcM>>
    /\ UNCHANGED <<infile, oldfile, outfile, samplenames, sampledata, mvolume,
                   mdilution, overwrite, nwritten>>
    /\ UNCHANGED tvars

(* for sample in samplenames: print "%s: %.3f" % (sample, titers[sample]) *)
PrintTiters ==
    /\ pcM = "titers"
    /\ pending = {}
    /\ IF \A i \in 1..Len(samplenames) : samplenames[i] \in DOMAIN titers
       THEN pcM' = "ask" /\ UNCHANGED error
       ELSE pcM' = "except" /\ error' = "KeyError"
    /\ UNCHANGED <<infile, oldfile, outfile, samplenames, sampledata, mvolume,
                   mdilution, pending, titers, overwrite, nwritten>>
    /\ UNCHANGED tvars

(* AskOverwrite(outfile): True when the file does not exist, else the    *)
(* answer typed at the prompt, asked again until it is Y, y, N or n      *)
AskOverwrite(ans) ==
    /\ pcM = "ask"
    /\ IF ~outfile.exists \/ ans \in {"Y", "y"}
       THEN pcM' = "open" /\ overwrite' = "yes"
       ELSE IF ans \in {"N", "n"}
       THEN pcM' = "finally" /\ overwrite' = "no"
       ELSE UNCHANGED <<pcM, overwrite>>
    /\ UNCHANGED <<infile, oldfile, outfile, samplenames, sampledata, mvolume,
                   mdilution, pending, titers, nwritten, error>>
    /\ UNCHANGED tvars

(* f = open(outfile, 'w') *)
OpenOutfile ==
    /\ pcM = "open"
    /\ outfile' = [exists |-> TRUE, lines |-> <<>>]
    /\ pcM' = "header"
    /\ UNCHANGED <<infile, oldfile, samplenames, sampledata, mvolume, mdilution,
                   pending, titers, overwrite, nwritten, error>>
    /\ UNCHANGED tvars

(* f.write("Here are the computed titers in TCID50 per ul.\n") *)
WriteHeader ==
    /\ pcM = "header"
    /\ outfile' = [outfile EXCEPT !.lines = Append(@, HeaderLine)]
    /\ pcM' = "write"
    /\ UNCHANGED <<infile, oldfile, samplenames, sampledata, mvolume, mdilution,
                   pending, titers, overwrite, nwritten, error>>
    /\ UNCHANGED tvars

(* one turn of: for sample in samplenames: f.write(...) *)
WriteLine ==
    /\ pcM = "write"
    /\ nwritten < Len(samplenames)
    /\ LET sample == samplenames[nwritten + 1]
       IN  IF sample \in DOMAIN titers
           THEN /\ outfile' = [outfile EXCEPT !.lines = Append(@, TiterLine(sample, titers[sample]))]
                /\ nwritten' = nwritten + 1
                /\ UNCHANGED <<pcM, error>>
           ELSE /\ pcM' = "except" /\ error' = "KeyError"
                /\ UNCHANGED <<outfile, nwritten>>
    /\ UNCHANGED <<infile, oldfile, samplenames, sampledata, mvolume, mdilution,
                   pending, titers, overwrite>>
    /\ UNCHANGED tvars

(* f.close() *)
CloseOutfile ==
    /\ pcM = "write"
    /\ nwritten = Len(samplenames)
    /\ pcM' = "finally"
    /\ UNCHANGED <<infile, oldfile, outfile, samplenames, sampledata, mvolume,
                   mdilution, pending, titers, overwrite, nwritten, error>>
    /\ UNCHANGED tvars

(* except Exception, e: print "ERROR."; print e *)
Except ==
    /\ pcM = "except"
    /\ pcM' = "finally"
    /\ UNCHANGED <<infile, oldfile, outfile, samplenames, sampledata, mvolume,
                   mdilution, pending, titers, overwrite, nwritten, error>>
    /\ UNCHANGED tvars

(* finally: raw_input('Press any key to close the program.') *)
Finally ==
    /\ pcM = "finally"
    /\ pcM' = "exit"
    /\ UNCHANGED <<infile, oldfile, outfile, samplenames, sampledata, mvolume,
                   mdilution, pending, titers, overwrite, nwritten, error>>
    /\ UNCHANGED tvars

Answers == {"Y", "N", "x"}

NextMain ==
    \/ Parse
    \/ \E sample \in pending : ComputeTiter(sample)
    \/ PrintTiters
    \/ \E ans \in Answers : AskOverwrite(ans)
    \/ OpenOutfile
    \/ WriteHeader
    \/ WriteLine
    \/ CloseOutfile
    \/ Except
    \/ Finally

SpecMain == InitMain /\ [][NextMain]_vars

(* ------------------------------------- locals of Titer on the current input *)
nreplicates == Len(infectedwells)

Done == pc = "done"
Returned == Done /\ result.kind = "Titer"

(* every label is one of A..H *)
LabelsValid ==
    \A i \in 1..nreplicates : \A j \in 1..Len(infectedwells[i]) :
        infectedwells[i][j] \in RowSet

(* some replicate holds the same label twice *)
SomeRepeat ==
    \E i \in 1..nreplicates : \E j, k \in 1..Len(infectedwells[i]) :
        j # k /\ infectedwells[i][j] = infectedwells[i][k]

(* a Sample assay of the data model: >= 2 replicates of distinct rows A..H *)
ValidInput == nreplicates >= 2 /\ LabelsValid /\ ~SomeRepeat

(* the set of rows replicate i reports *)
RowsOf(i) == {infectedwells[i][j] : j \in 1..Len(infectedwells[i])}

(* every replicate reports exactly rows A..k *)
AllExactly(k) ==
    /\ LabelsValid /\ ~SomeRepeat
    /\ \A i \in 1..nreplicates : RowsOf(i) = {rows[q] : q \in 1..k}

InRange(p) == FracLeq(Zero, p) /\ FracLeq(p, Hundred)

(* C1: when every one of >= 2 replicates reports exactly rows A..k, k in   *)
(* A..G, Titer returns a titer with rowabove50 = k, percentrowabove50 =    *)
(* 100, percentrowbelow50 = 0, index = 1/2 and exponent (k - 1) + 1/2 in   *)
(* zero-based terms, over the given dilution and volume.                   *)
C1_MonotonePattern ==
    Done =>
        \A k \in 1..(NRows - 1) :
            (nreplicates >= 2 /\ AllExactly(k)) =>
                /\ result.kind = "Titer"
                /\ RowAbove50(percentinfected) = k
                /\ PercentRowAbove50(percentinfected) = Hundred
                /\ PercentRowBelow50(percentinfected) = Zero
                /\ Index(percentinfected) = <<1, 2>>
                /\ result.titer = [base |-> dilution,
                                   exponent |-> <<2 * (k - 1) + 1, 2>>,
                                   volume |-> volume]

C1_Witness ==
    /\ Done /\ nreplicates = 3 /\ AllExactly(3)
    /\ result.titer.exponent = <<5, 2>>

Scenario == <<Prefix(4), Prefix(3), Prefix(4)>>

(* C2 as stated: on [[A,B,C,D],[A,B,C],[A,B,C,D]] the counts are           *)
(* 3,3,3,2,0,0,0,0, row C is at 100%, row D is below 50%, rowabove50 is C  *)
(* and the first row below 50% is D.                                       *)
C2_Original ==
    (Done /\ infectedwells = Scenario) =>
        /\ counts = <<3, 3, 3, 2, 0, 0, 0, 0>>
        /\ percentinfected[3] = Hundred
        /\ FracLess(percentinfected[4], Fifty)
        /\ RowAbove50(percentinfected) = 3
        /\ FirstBelow50(percentinfected) = 4

(* C2 amended: on [[A,B,C,D],[A,B,C],[A,B,C,D]] the counts are             *)
(* 3,3,3,2,0,0,0,0, rows A..C are at 100%, row D is at 200/3 % (above      *)
(* 50%), row E is at 0%, so rowabove50 is D and the first row below 50%    *)
(* is E; the titer has exponent 3 + 1/4.                                   *)
C2_Scenario ==
    (Done /\ infectedwells = Scenario) =>
        /\ counts = <<3, 3, 3, 2, 0, 0, 0, 0>>
        /\ percentinfected[3] = Hundred
        /\ percentinfected[4] = <<200, 3>>
        /\ percentinfected[5] = Zero
        /\ RowAbove50(percentinfected) = 4
        /\ FirstBelow50(percentinfected) = 5
        /\ result.kind = "Titer"
        /\ result.titer.exponent = <<13, 4>>

C2_Witness == Returned /\ infectedwells = Scenario /\ volume = <<1, 20>> /\ dilution = 10

(* C3: on a valid input every row has infected >= 0, uninfected >= 0,      *)
(* infected + uninfected >= nreplicates and 0 <= percentinfected <= 100.   *)
C3_PercentBounded ==
    (Done /\ ValidInput) =>
        \A r \in 1..NRows :
            /\ infected[r] >= 0
            /\ uninfected[r] >= 0
            /\ Denominator(infected, uninfected, r) >= nreplicates
            /\ InRange(percentinfected[r])

C3_Witness ==
    /\ Done /\ ValidInput
    /\ \E i \in 1..nreplicates : infectedwells[i] \in SkipReplicates
    /\ \E r \in 1..NRows :
        /\ FracLess(Zero, percentinfected[r])
        /\ FracLess(percentinfected[r], Hundred)
        /\ Denominator(infected, uninfected, r) > nreplicates

(* C4: with >= 2 replicates, all of them empty, Titer fails with           *)
(* FirstDilutionBelow50 and returns no titer.                              *)
C4_AllEmpty ==
    (Done /\ nreplicates >= 2 /\ \A i \in 1..nreplicates : infectedwells[i] = <<>>) =>
        result = [kind |-> "FirstDilutionBelow50", titer |-> NoTiter]

C4_Witness ==
    /\ Done /\ nreplicates = 3 /\ \A i \in 1..nreplicates : infectedwells[i] = <<>>
    /\ result.kind = "FirstDilutionBelow50"

(* C5: with >= 2 replicates, each reporting all of A..H, every row has     *)
(* percentinfected >= 50 and Titer fails with NoDilutionBelow50.           *)
C5_AllInfected ==
    (Done /\ nreplicates >= 2 /\ AllExactly(NRows)) =>
        /\ \A r \in 1..NRows : FracLeq(Fifty, percentinfected[r])
        /\ result = [kind |-> "NoDilutionBelow50", titer |-> NoTiter]

C5_Witness ==
    Done /\ nreplicates = 2 /\ AllExactly(NRows) /\ result.kind = "NoDilutionBelow50"

(* C6: with >= 2 replicates, a label outside A..H anywhere makes Titer     *)
(* fail with InvalidRowLabel, whatever the other replicates hold.          *)
C6_InvalidLabel ==
    (Done /\ nreplicates >= 2 /\ ~LabelsValid) =>
        result = [kind |-> "InvalidRowLabel", titer |-> NoTiter]

C6_Witness ==
    /\ Done /\ nreplicates = 3
    /\ infectedwells[1] = Prefix(NRows)
    /\ infectedwells[2] = <<"A", "Z", "B">>
    /\ infectedwells[3] = Prefix(NRows)
    /\ result.kind = "InvalidRowLabel"

(* C7: with fewer than 2 replicates Titer fails with                       *)
(* InsufficientReplicates, even when the one replicate holds an invalid    *)
(* label.                                                                  *)
C7_TooFew ==
    (Done /\ nreplicates < 2) =>
        result = [kind |-> "InsufficientReplicates", titer |-> NoTiter]

C7_Witness ==
    /\ Done /\ nreplicates = 1 /\ infectedwells[1] = <<"Z">>
    /\ result.kind = "InsufficientReplicates"

(* C9 as stated: called with >= 2 replicates of labels in A..H, one of     *)
(* which repeats a label, Titer ends in a titer or a named error kind,     *)
(* meets no zero divisor and keeps every percentinfected in [0, 100].      *)
C9_DuplicatesTolerated ==
    (Done /\ nreplicates >= 2 /\ LabelsValid /\ SomeRepeat) =>
        /\ result.kind \in {"Titer"} \cup ErrorKinds
        /\ ~ZeroDivisor(infected, uninfected)
        /\ \A r \in 1..NRows : InRange(percentinfected[r])

(* C10: on a valid input for which Titer returns, rowabove50 is one of     *)
(* A..G, percentrowabove50 >= 50 > percentrowbelow50, the divisor of index *)
(* is positive, 0 <= index < 1 and the exponent lies in                    *)
(* [startdilution, startdilution + 1).                                     *)
C10_IndexRange ==
    (Returned /\ ValidInput) =>
        /\ RowAbove50(percentinfected) \in 1..(NRows - 1)
        /\ FracLeq(Fifty, PercentRowAbove50(percentinfected))
        /\ FracLess(PercentRowBelow50(percentinfected), Fifty)
        /\ FracLess(Zero, IndexDivisor(percentinfected))
        /\ FracLeq(Zero, Index(percentinfected))
        /\ FracLess(Index(percentinfected), <<1, 1>>)
        /\ FracLeq(<<StartDilution(percentinfected), 1>>, result.titer.exponent)
        /\ FracLess(result.titer.exponent, <<StartDilution(percentinfected) + 1, 1>>)

C10_Witness ==
    /\ Returned /\ ValidInput
    /\ PercentRowAbove50(percentinfected) = Fifty
    /\ Index(percentinfected) = Zero
    /\ RowAbove50(percentinfected) = 2

(* ------------------------------------------------------------ run of main *)
(* the names on the SAMPLE lines of a file, in the order of the file *)
RECURSIVE SampleNamesOf(_)
SampleNamesOf(file) ==
    IF file = <<>> THEN <<>>
    ELSE IF Head(file).kind = "SAMPLE" THEN <<Head(file).name>> \o SampleNamesOf(Tail(file))
    ELSE SampleNamesOf(Tail(file))

Failed == error # "none"

(* parsing succeeded and Titer succeeded for every sample of the file *)
AllTitersSucceeded ==
    /\ ~Failed
    /\ samplenames = SampleNamesOf(infile)
    /\ pending = {}
    /\ \A i \in 1..Len(samplenames) :
        /\ samplenames[i] \in DOMAIN titers
        /\ Titer(sampledata[samplenames[i]], mvolume, mdilution).kind = "Titer"

(* the header line, then one line per sample in input order *)
ExpectedFile ==
    [exists |-> TRUE,
     lines |-> <<HeaderLine>> \o
        [i \in 1..Len(SampleNamesOf(infile)) |->
            TiterLine(SampleNamesOf(infile)[i],
                      Titer(sampledata[SampleNamesOf(infile)[i]], mvolume, mdilution).titer)]]

(* C8: the output file differs from what it was before the run only once   *)
(* Titer has succeeded for every sample; after any failure of parsing or   *)
(* of Titer it is as it was before the run (not created, not truncated);   *)
(* once written and closed it holds the header and exactly one line per    *)
(* sample in input order.                                                  *)
C8_AllOrNothing ==
    /\ (outfile # oldfile) =>
            (AllTitersSucceeded /\ overwrite = "yes"
                /\ pcM \in {"header", "write", "finally", "exit"})
    /\ Failed => (outfile = oldfile /\ pcM \in {"except", "finally", "exit"})
    /\ (pcM \in {"finally", "exit"} /\ overwrite = "yes") => outfile = ExpectedFile
    /\ overwrite = "no" => outfile = oldfile

C8_Witness ==
    /\ pcM = "exit" /\ error \in ErrorKinds
    /\ titers # <<>>
    /\ oldfile = OldFile /\ outfile = OldFile

C8_WitnessWritten ==
    /\ pcM = "exit" /\ overwrite = "yes" /\ Len(samplenames) = 2
    /\ oldfile = OldFile /\ Len(outfile.lines) = 3
====
